---- MODULE Spec2Model ----
(***************************************************************************)
(* A model of libcppwrap's RAII ownership handle (include/w/handle.hpp)    *)
(* and of the acquisition wrappers that construct handles (src/w/*.cpp).   *)
(*                                                                         *)
(* A handle object is a slot h with a lifetime (unborn, live, dead) and    *)
(* the private field _resource.  Two instantiations of the template are    *)
(* modelled: w::fd = handle<int, -1, ::close> and the handle returned by   *)
(* w::getifaddrs = handle<ifaddrs *, nullptr, ::freeifaddrs>.  Objects of  *)
(* different instantiations never interact (a move needs both operands to  *)
(* have the same type), so a behaviour fixes one instantiation for all its *)
(* objects.                                                                *)
(* CloseFunc is an external function: the model counts its invocations     *)
(* per argument and records, for the last operation, every invocation      *)
(* together with the fields of all handles at the moment of the call.      *)
(*                                                                         *)
(* SpecMmap is the same machine for a third instantiation, w::mmap_handle  *)
(* = handle<memory_region, memory_region { }, detail::munmap>, whose       *)
(* values come from w::mmap (src/w/posix.cpp).                             *)
(*                                                                         *)
(* SpecLib models the functions that keep no state between calls: the      *)
(* throw_if_* helpers (include/w/assert.hpp), w::epoll_wait                *)
(* (src/w/linux.cpp), wx::number and wx::rtrim (include/wx/string.hpp),    *)
(* wx::read_file_as_string and wx::slurp (src/wx/slurp.cpp).  An initial   *)
(* state is a call about to be made, its step the call.                    *)
(*                                                                         *)
(* SpecAccept adds the w::accept(sockfd, Address&) template                *)
(* (include/w/sockets.hpp) to the operations of w::fd.  SpecIpv6 models    *)
(* wx::ipv6::is_link_local and wx::ipv6::get_link_local_address            *)
(* (src/wx/ipv6.cpp) as calls, the second with its local handle on the     *)
(* interface list.                                                         *)
(***************************************************************************)
EXTENDS Integers, Sequences, FiniteSets, TLC

\* ------------------------------------------------------------------ bounds

\* Number of handle objects.
NumHandles == 2

\* Number of distinct non-sentinel resource values of each resource type.
NumValues == 2

\* ------------------------------------------------- template instantiations

\* w::fd: Closed = -1
ClosedFd == -1

\* w::getifaddrs' handle: Closed = nullptr
NullPtr == 0

Kinds == {"fd", "ifaddrs"}

\* w::mmap_handle = handle<memory_region, memory_region { }, detail::munmap>.
\* A memory_region { address, length } is the pair <<address, length>>;
\* memory_region { } is { nullptr, 0 }.
memory_region(address, length) == <<address, length>>

NullRegion == memory_region(NullPtr, 0)

\* What ::mmap returns on failure: MAP_FAILED, (void *) -1.
MAP_FAILED == -1

\* The lengths a mapping is requested with.
Lengths == {1}

\* The template parameter Closed of each instantiation.
Closed(k) ==
    CASE k = "fd"      -> ClosedFd
      [] k = "ifaddrs" -> NullPtr
      [] k = "mmap"    -> NullRegion

\* Descriptors are 0, 1, ...; list pointers are non-null addresses 1, 2, ...;
\* a region is what w::mmap can return: the address ::mmap produced (not
\* null) with the requested length.
Values(k) ==
    CASE k = "fd"      -> 0 .. (NumValues - 1)
      [] k = "ifaddrs" -> 1 .. NumValues
      [] k = "mmap"    -> {memory_region(a, l) :
                               a \in {MAP_FAILED} \cup (1 .. NumValues),
                               l \in Lengths}

\* Every value of type Resource, the sentinel included.
AllValues(k) == Values(k) \cup {Closed(k)}

Handles == 1 .. NumHandles

\* A resource value of one instantiation: <<kind, value>>.
Keys == UNION {{<<k, v>> : v \in AllValues(k)} : k \in Kinds \cup {"mmap"}}

VARIABLES
    inst,        \* the instantiation of the template the handle objects have
    life,        \* life[h]: "unborn", "live" or "dead"
    resource,    \* resource[h]: the field _resource of handle h
    passed,      \* passed[key]: times the value was given to the owning constructor
    closeCalls,  \* closeCalls[key]: times CloseFunc was invoked with the value
    detached,    \* detached[key]: times release() returned the value
    moves,       \* times a move took a value from one object to another
    lastOp       \* the last operation: its name, operands, result and CloseFunc calls

\* The static type of each handle object.
KindOf(h) == inst

Key(h, v) == <<KindOf(h), v>>

vars == <<inst, life, resource, passed, closeCalls, detached, moves, lastOp>>

\* ------------------------------------------------------- handle.hpp, as code
\* Every member function is an operator from the fields of all handles to
\* a record: res, the fields afterwards; calls, the CloseFunc invocations
\* it made, in order; ret, the value it returns (<<>> for none).

\* std::swap(a._resource, b._resource)
Swap(res, a, b) == [res EXCEPT ![a] = res[b], ![b] = res[a]]

\* One invocation of CloseFunc: its argument, the object whose member
\* function made it, and the fields of all handles at the moment of the call.
CloseCall(h, v, res) == [k |-> KindOf(h), v |-> v, by |-> h, at |-> res]

\* handle(Resource resource) noexcept : _resource(resource) { }
handle_owning(res, h, v) ==
    [res |-> [res EXCEPT ![h] = v], calls |-> <<>>, ret |-> <<>>]

\* Faulty variant: the default constructor value-initialises the field
\* (Resource { }) instead of storing Closed.
handle_default_zero(res, h) == handle_owning(res, h, 0)

\* handle() noexcept : handle(Closed) { }
handle_default(res, h) == handle_owning(res, h, Closed(KindOf(h)))

\* Faulty variant: the move constructor copies the field and leaves the source as
\* it was.
handle_move_copies(res, h, other) ==
    [res |-> [res EXCEPT ![h] = res[other]], calls |-> <<>>, ret |-> <<>>]

\* handle(handle&& other) noexcept : _resource(Closed)
\* { std::swap(_resource, other._resource); }
handle_move(res, h, other) ==
    [res   |-> Swap([res EXCEPT ![h] = Closed(KindOf(h))], h, other),
     calls |-> <<>>,
     ret   |-> <<>>]

\* Faulty variant: close() does not compare with Closed before calling CloseFunc.
close_unchecked(res, h) ==
    LET res2 == [res EXCEPT ![h] = Closed(KindOf(h))]
    IN  [res |-> res2, calls |-> <<CloseCall(h, res[h], res2)>>, ret |-> <<>>]

\* Faulty variant: close() calls CloseFunc on _resource and leaves it in the handle.
close_keeps(res, h) ==
    [res   |-> res,
     calls |-> IF Closed(KindOf(h)) # res[h]
               THEN <<CloseCall(h, res[h], res)>>
               ELSE <<>>,
     ret   |-> <<>>]

\* Faulty variant: the field is shared: close() also empties every other
\* handle that holds the same value.
close_shared(res, h) ==
    LET res2 == [x \in DOMAIN res |->
                    IF res[x] = res[h] THEN Closed(KindOf(h)) ELSE res[x]]
    IN  [res   |-> res2,
         calls |-> IF Closed(KindOf(h)) # res[h]
                   THEN <<CloseCall(h, res[h], res2)>>
                   ELSE <<>>,
         ret   |-> <<>>]

\* void close() noexcept: the local `resource` starts as Closed, is swapped
\* with _resource, and CloseFunc runs on it when it differs from Closed.
close(res, h) ==
    LET local   == Closed(KindOf(h))
        local2  == res[h]
        res2    == [res EXCEPT ![h] = local]
    IN  [res   |-> res2,
         calls |-> IF Closed(KindOf(h)) # local2
                   THEN <<CloseCall(h, local2, res2)>>
                   ELSE <<>>,
         ret   |-> <<>>]

\* Faulty variant: the move-assignment copies the source's field instead of
\* swapping with it.
move_assign_copies(res, h, other) ==
    IF other # h
    THEN LET c == close(res, h)
         IN  [res |-> [c.res EXCEPT ![h] = c.res[other]], calls |-> c.calls,
              ret |-> <<>>]
    ELSE [res |-> res, calls |-> <<>>, ret |-> <<>>]

\* Faulty variant: the move-assignment does not close what the destination owns.
move_assign_no_close(res, h, other) ==
    IF other # h
    THEN [res |-> Swap(res, h, other), calls |-> <<>>, ret |-> <<>>]
    ELSE [res |-> res, calls |-> <<>>, ret |-> <<>>]

\* Faulty variant: the move-assignment does not test for self-assignment.
move_assign_no_self_test(res, h, other) ==
    LET c == close(res, h)
    IN  [res |-> Swap(c.res, h, other), calls |-> c.calls, ret |-> <<>>]

\* Faulty variant: the move-assignment swaps with the source first and
\* releases the previous value afterwards.
move_assign_swaps_first(res, h, other) ==
    IF other # h
    THEN LET s == Swap(res, h, other)
         IN  [res   |-> [s EXCEPT ![other] = Closed(KindOf(h))],
              calls |-> IF Closed(KindOf(h)) # s[other]
                        THEN <<CloseCall(h, s[other], s)>>
                        ELSE <<>>,
              ret   |-> <<>>]
    ELSE [res |-> res, calls |-> <<>>, ret |-> <<>>]

\* handle& operator=(handle&& other) noexcept
move_assign(res, h, other) ==
    IF other # h
    THEN LET c == close(res, h)
         IN  [res |-> Swap(c.res, h, other), calls |-> c.calls, ret |-> <<>>]
    ELSE [res |-> res, calls |-> <<>>, ret |-> <<>>]

\* Faulty variant: the destructor does nothing.
destroy_leaks(res, h) == [res |-> res, calls |-> <<>>, ret |-> <<>>]

\* ~handle() noexcept { close(); }
destroy(res, h) == close(res, h)

\* Faulty variant: get() hands the value out and leaves the sentinel.
get_detaches(res, h) ==
    [res |-> [res EXCEPT ![h] = Closed(KindOf(h))], calls |-> <<>>,
     ret |-> <<res[h]>>]

\* Resource get() noexcept { return _resource; }
get(res, h) == [res |-> res, calls |-> <<>>, ret |-> <<res[h]>>]

\* operator Resource() noexcept { return _resource; }
operator_Resource(res, h) == [res |-> res, calls |-> <<>>, ret |-> <<res[h]>>]

\* operator bool() const noexcept { return Closed != _resource; }
operator_bool(res, h) ==
    [res |-> res, calls |-> <<>>, ret |-> <<Closed(KindOf(h)) # res[h]>>]

\* Faulty variant: release() returns the value and leaves it in the handle.
release_keeps(res, h) == [res |-> res, calls |-> <<>>, ret |-> <<res[h]>>]

\* Faulty variant: release() closes the resource before returning it.
release_closes(res, h) ==
    [res |-> close(res, h).res, calls |-> close(res, h).calls, ret |-> <<res[h]>>]

\* Resource release() noexcept
release(res, h) ==
    LET local  == Closed(KindOf(h))
        local2 == res[h]
        res2   == [res EXCEPT ![h] = local]
    IN  [res |-> res2, calls |-> <<>>, ret |-> <<local2>>]

\* ------------------------------------------------------- assert.hpp, as code

\* Faulty variant: throw_if_eq tests value < x.
throw_if_eq_tests_lt(value, x) == [threw |-> value < x, value |-> value]

\* throw_if_eq(value, x, message)
throw_if_eq(value, x) == [threw |-> value = x, value |-> value]

\* Faulty variant: throw_if_ne tests value == x.
throw_if_ne_tests_eq(value, x) == [threw |-> value = x, value |-> value]

\* throw_if_ne(value, x, message)
throw_if_ne(value, x) == [threw |-> value # x, value |-> value]

\* throw_if_nz(value, message)
throw_if_nz(value) == [threw |-> value # 0, value |-> value]

\* Faulty variant: throw_if_lt tests value <= x.
throw_if_lt_tests_le(value, x) == [threw |-> value <= x, value |-> value]

\* throw_if_lt(value, x, message)
throw_if_lt(value, x) == [threw |-> value < x, value |-> value]

\* throw_if_z(value, message)
throw_if_z(value) == [threw |-> value = 0, value |-> value]

\* An exception object: its dynamic type and, for std::system_error, the
\* error code it carries (0 for the other types).
Exception(type, code) == [type |-> type, code |-> code]

\* throw std::system_error(errno, std::generic_category(), message)
system_error(errno) == Exception("std::system_error", errno)

\* The outcome of a call: it returned `value`, or it threw `exception`.
Return(value) == [threw |-> FALSE, value |-> value]
Throw(exception) == [threw |-> TRUE, value |-> exception]

\* ------------------------------------------------------------ bookkeeping

\* An index that is no handle: the operand an operation does not have.
NoHandle == NumHandles + 1

\* The record of an operation.  h: the object operated on (or constructed);
\* src: the other operand of a move; h2: the second object constructed;
\* arg: the value given to a constructor; ret: the value returned (a bool
\* is returned as itself); sys: the values the system call produced;
\* threw: whether the operation threw; calls: the CloseFunc invocations;
\* pre: the fields before the operation.
Op(name, h, src, h2, arg, ret, sys, threw, calls, pre) ==
    [op |-> name, h |-> h, src |-> src, h2 |-> h2, arg |-> arg, ret |-> ret,
     sys |-> sys, threw |-> threw, calls |-> calls, pre |-> pre]

\* The counters record "never", "once" or "more than once": Bump is the
\* successor that stops at "more than once".
Bump(n, by) == IF n + by >= 2 THEN 2 ELSE n + by

\* Number of invocations in `calls` with key `key`.
CountCalls(calls, key) ==
    Cardinality({i \in 1 .. Len(calls) : <<calls[i].k, calls[i].v>> = key})

\* closeCalls after the invocations in `calls`.
Invoked(calls) ==
    [key \in Keys |-> Bump(closeCalls[key], CountCalls(calls, key))]

\* passed after the owning constructor received the values of keySeq, one
\* object each; constructing with the sentinel acquires nothing.
Passed(keySeq) ==
    [key \in Keys |->
        IF key[2] = Closed(key[1])
        THEN passed[key]
        ELSE Bump(passed[key],
                  Cardinality({i \in 1 .. Len(keySeq) : keySeq[i] = key}))]

Init ==
    /\ inst \in Kinds
    /\ life = [h \in Handles |-> "unborn"]
    /\ resource = [h \in Handles |-> Closed(KindOf(h))]
    /\ passed = [key \in Keys |-> 0]
    /\ closeCalls = [key \in Keys |-> 0]
    /\ detached = [key \in Keys |-> 0]
    /\ moves = 0
    /\ lastOp = Op("init", NoHandle, NoHandle, NoHandle, <<>>, <<>>, <<>>,
                   FALSE, <<>>, resource)

\* ---------------------------------------------------------------- actions

\* The effect of a member function with result r on the state: the fields,
\* the CloseFunc counters and the record of the operation.
Effect(name, h, src, arg, r) ==
    /\ resource' = r.res
    /\ closeCalls' = Invoked(r.calls)
    /\ lastOp' = Op(name, h, src, NoHandle, arg, r.ret, <<>>, FALSE, r.calls,
                    resource)

\* moves after a move from `other` into h: one more when `other` is another
\* object and holds a value, not the sentinel.
Moved(h, other) ==
    IF h # other /\ resource[other] # Closed(KindOf(other))
    THEN Bump(moves, 1)
    ELSE moves

\* handle x;
ConstructEmpty(h) ==
    /\ life[h] = "unborn"
    /\ life' = [life EXCEPT ![h] = "live"]
    /\ Effect("handle()", h, NoHandle, <<>>, handle_default(resource, h))
    /\ UNCHANGED <<inst, passed, detached, moves>>

\* handle x(v);
ConstructOwning(h, v) ==
    /\ life[h] = "unborn"
    /\ life' = [life EXCEPT ![h] = "live"]
    /\ Effect("handle(Resource)", h, NoHandle, <<v>>, handle_owning(resource, h, v))
    /\ passed' = Passed(<<Key(h, v)>>)
    /\ UNCHANGED <<inst, detached, moves>>

\* handle x(std::move(other));
MoveConstruct(h, other) ==
    /\ life[h] = "unborn"
    /\ life[other] = "live"
    /\ life' = [life EXCEPT ![h] = "live"]
    /\ Effect("handle(handle&&)", h, other, <<>>, handle_move(resource, h, other))
    /\ moves' = Moved(h, other)
    /\ UNCHANGED <<inst, passed, detached>>

\* x = std::move(other);   (other may be x itself)
MoveAssign(h, other) ==
    /\ life[h] = "live"
    /\ life[other] = "live"
    /\ Effect("operator=", h, other, <<>>, move_assign(resource, h, other))
    /\ moves' = Moved(h, other)
    /\ UNCHANGED <<inst, life, passed, detached>>

\* x goes out of scope
Destroy(h) ==
    /\ life[h] = "live"
    /\ Effect("~handle", h, NoHandle, <<>>, destroy(resource, h))
    /\ life' = [life EXCEPT ![h] = "dead"]
    /\ UNCHANGED <<inst, passed, detached, moves>>

\* x.close();
Close(h) ==
    /\ life[h] = "live"
    /\ Effect("close", h, NoHandle, <<>>, close(resource, h))
    /\ UNCHANGED <<inst, life, passed, detached, moves>>

\* x.release();  the caller receives the value.
Release(h) ==
    /\ life[h] = "live"
    /\ LET r == release(resource, h)
       IN  /\ Effect("release", h, NoHandle, <<>>, r)
           /\ detached' = IF r.ret[1] # Closed(KindOf(h))
                          THEN [detached EXCEPT ![Key(h, r.ret[1])] = Bump(@, 1)]
                          ELSE detached
    /\ UNCHANGED <<inst, life, passed, moves>>

\* x.get();
Get(h) ==
    /\ life[h] = "live"
    /\ Effect("get", h, NoHandle, <<>>, get(resource, h))
    /\ UNCHANGED <<inst, life, passed, detached, moves>>

\* static_cast<Resource>(x)
ToResource(h) ==
    /\ life[h] = "live"
    /\ Effect("operator Resource", h, NoHandle, <<>>, operator_Resource(resource, h))
    /\ UNCHANGED <<inst, life, passed, detached, moves>>

\* static_cast<bool>(x)
ToBool(h) ==
    /\ life[h] = "live"
    /\ Effect("operator bool", h, NoHandle, <<>>, operator_bool(resource, h))
    /\ UNCHANGED <<inst, life, passed, detached, moves>>

\* ------------------------------------------- acquisition wrappers, as code

\* What a descriptor-returning system call can return: -1 or a descriptor.
SysFd == {-1} \cup Values("fd")

\* What ::pipe and ::getifaddrs return: 0 or -1.
SysRc == {0, -1}

\* w::open(pathname, flags) and w::open(pathname, flags, mode)
w_open(ret) == throw_if_eq(ret, -1)

\* w::socket(domain, type, protocol)
w_socket(ret) == throw_if_eq(ret, -1)

\* w::accept(sockfd, addr, addrlen)
w_accept(ret) == throw_if_eq(ret, -1)

\* w::epoll_create(size)
w_epoll_create(ret) == throw_if_eq(ret, -1)

\* w::eventfd(initval, flags)
w_eventfd(ret) == throw_if_eq(ret, -1)

\* w::timerfd_create(clockid, flags)
w_timerfd_create(ret) == throw_if_eq(ret, -1)

\* w::pipe(): rc is what ::pipe returned, fds the array it may have filled.
w_pipe(rc, fds) ==
    [threw |-> throw_if_ne(rc, 0).threw, value |-> <<fds[1], fds[2]>>]

\* w::getifaddrs(): rc is what ::getifaddrs returned, ifa the pointer it
\* may have stored.
w_getifaddrs(rc, ifa) ==
    [threw |-> throw_if_nz(rc).threw, value |-> ifa]

FdWrappers ==
    {"open", "socket", "accept", "epoll_create", "eventfd", "timerfd_create"}

FdWrapper(name, ret) ==
    CASE name = "open"           -> w_open(ret)
      [] name = "socket"         -> w_socket(ret)
      [] name = "accept"         -> w_accept(ret)
      [] name = "epoll_create"   -> w_epoll_create(ret)
      [] name = "eventfd"        -> w_eventfd(ret)
      [] name = "timerfd_create" -> w_timerfd_create(ret)

\* An operation that threw: nothing but the record of it changes.
Threw(name, sys) ==
    /\ lastOp' = Op(name, NoHandle, NoHandle, NoHandle, <<>>, <<>>, sys,
                    TRUE, <<>>, resource)
    /\ UNCHANGED <<inst, life, resource, passed, closeCalls, detached, moves>>

\* A wrapper that returns: the values of `arg` went to the owning
\* constructors of h and (for a pair) h2, with result r.
Construct(name, h, h2, arg, sys, r) ==
    /\ life' = [x \in Handles |-> IF x \in {h, h2} THEN "live" ELSE life[x]]
    /\ resource' = r.res
    /\ closeCalls' = Invoked(r.calls)
    /\ passed' = Passed([i \in 1 .. Len(arg) |-> <<inst, arg[i]>>])
    /\ lastOp' = Op(name, h, NoHandle, h2, arg, <<>>, sys, FALSE, r.calls, resource)
    /\ UNCHANGED <<inst, detached, moves>>

\* w::fd x = w::open(...);  and the five wrappers of the same shape: the
\* returned int converts to w::fd through handle(Resource).
AcquireFd(name, h, ret) ==
    /\ inst = "fd"
    /\ life[h] = "unborn"
    /\ LET r == FdWrapper(name, ret)
       IN  IF r.threw
           THEN Threw(name, <<ret>>)
           ELSE Construct(name, h, NoHandle, <<r.value>>, <<ret>>,
                          handle_owning(resource, h, r.value))

\* auto [r, w] = w::pipe();  on success ::pipe fills fds with two distinct
\* descriptors; on failure fds is left as it was, uninitialised.
AcquirePipe(h, h2, rc, fds) ==
    /\ inst = "fd"
    /\ h # h2
    /\ life[h] = "unborn"
    /\ life[h2] = "unborn"
    /\ rc = 0 => (fds[1] # fds[2] /\ fds[1] # -1 /\ fds[2] # -1)
    /\ LET r == w_pipe(rc, fds)
       IN  IF r.threw
           THEN Threw("pipe", <<rc>>)
           ELSE LET first == handle_owning(resource, h, r.value[1])
                    both  == handle_owning(first.res, h2, r.value[2])
                IN  Construct("pipe", h, h2, r.value, <<rc, fds[1], fds[2]>>,
                              [both EXCEPT !.calls = first.calls \o both.calls])

\* auto x = w::getifaddrs();  on success ::getifaddrs stores the list (null
\* for an empty list); on failure ifa is left uninitialised.
AcquireIfaddrs(h, rc, ifa) ==
    /\ inst = "ifaddrs"
    /\ life[h] = "unborn"
    /\ LET r == w_getifaddrs(rc, ifa)
       IN  IF r.threw
           THEN Threw("getifaddrs", <<rc>>)
           ELSE Construct("getifaddrs", h, NoHandle, <<r.value>>, <<rc, ifa>>,
                          handle_owning(resource, h, r.value))

AcquireNext ==
    \/ \E name \in FdWrappers : \E h \in Handles : \E ret \in SysFd :
           AcquireFd(name, h, ret)
    \/ \E h \in Handles : \E h2 \in Handles : \E rc \in SysRc :
       \E fds \in [1 .. 2 -> AllValues("fd")] :
           AcquirePipe(h, h2, rc, fds)
    \/ \E h \in Handles : \E rc \in SysRc : \E ifa \in AllValues("ifaddrs") :
           AcquireIfaddrs(h, rc, ifa)

HandleNext ==
    \/ \E h \in Handles : ConstructEmpty(h)
    \/ \E h \in Handles : \E v \in AllValues(KindOf(h)) : ConstructOwning(h, v)
    \/ \E h \in Handles : \E o \in Handles : MoveConstruct(h, o)
    \/ \E h \in Handles : \E o \in Handles : MoveAssign(h, o)
    \/ \E h \in Handles : Destroy(h)
    \/ \E h \in Handles : Close(h)
    \/ \E h \in Handles : Release(h)
    \/ \E h \in Handles : Get(h)
    \/ \E h \in Handles : ToResource(h)
    \/ \E h \in Handles : ToBool(h)

Next == HandleNext \/ AcquireNext

Spec == Init /\ [][Next]_vars

\* ------------------------------------------------------ w::mmap, as code

\* What ::mmap can return: MAP_FAILED on failure, otherwise the address of
\* the mapping (null only for a fixed mapping at address zero).
SysMmap == {MAP_FAILED, NullPtr} \cup (1 .. NumValues)

\* w::mmap(address, length, prot, flags, fd, offset): actual_address is what
\* ::mmap returned.
w_mmap(actual_address, length) ==
    [threw |-> throw_if_eq(actual_address, NullPtr).threw,
     value |-> memory_region(actual_address, length)]

\* w::mmap_handle x = w::mmap(...);  the returned memory_region converts to
\* w::mmap_handle through handle(Resource).
AcquireMmap(h, length, actual_address) ==
    /\ inst = "mmap"
    /\ life[h] = "unborn"
    /\ LET r == w_mmap(actual_address, length)
       IN  IF r.threw
           THEN Threw("mmap", <<actual_address, length>>)
           ELSE Construct("mmap", h, NoHandle, <<r.value>>,
                          <<actual_address, length>>,
                          handle_owning(resource, h, r.value))

\* A program whose handles are w::mmap_handle objects.
InitMmap ==
    /\ inst = "mmap"
    /\ life = [h \in Handles |-> "unborn"]
    /\ resource = [h \in Handles |-> Closed(KindOf(h))]
    /\ passed = [key \in Keys |-> 0]
    /\ closeCalls = [key \in Keys |-> 0]
    /\ detached = [key \in Keys |-> 0]
    /\ moves = 0
    /\ lastOp = Op("init", NoHandle, NoHandle, NoHandle, <<>>, <<>>, <<>>,
                   FALSE, <<>>, resource)

\* Every mapping such a program owns comes from w::mmap.
NextMmap ==
    \/ \E h \in Handles : \E length \in Lengths : \E a \in SysMmap :
           AcquireMmap(h, length, a)
    \/ \E h \in Handles : ConstructEmpty(h)
    \/ \E h \in Handles : \E o \in Handles : MoveConstruct(h, o)
    \/ \E h \in Handles : \E o \in Handles : MoveAssign(h, o)
    \/ \E h \in Handles : Destroy(h)
    \/ \E h \in Handles : Close(h)
    \/ \E h \in Handles : Release(h)
    \/ \E h \in Handles : Get(h)
    \/ \E h \in Handles : ToResource(h)
    \/ \E h \in Handles : ToBool(h)

SpecMmap == InitMmap /\ [][NextMmap]_vars

\* ------------------------------------- w::accept(sockfd, Address&), as code

\* sizeof(addr) for the Address the template is instantiated with
\* (struct sockaddr_in).
SizeofAddress == 16

\* What ::accept can leave in addrlen: the size of the structure, or the
\* larger size of an address that did not fit.
AddrLens == {SizeofAddress, SizeofAddress + 1}

\* Faulty variant: the connection descriptor is kept in a plain int, which
\* nothing closes when the length test throws.
accept_address_leaks(res, fd, result, ret, addrlen) ==
    LET a == w_accept(ret)
    IN  IF a.threw
        THEN [outcome |-> Throw(system_error(0)), res |-> res, calls |-> <<>>,
              constructed |-> {}, returned |-> {}]
        ELSE IF addrlen # SizeofAddress
        THEN [outcome |-> Throw(Exception("std::runtime_error", 0)),
              res |-> res, calls |-> <<>>, constructed |-> {},
              returned |-> {}]
        ELSE [outcome |-> Return(result),
              res |-> handle_owning(res, result, a.value).res,
              calls |-> <<>>, constructed |-> {result}, returned |-> {result}]

\* template <typename Address> w::fd accept(int sockfd, Address& addr):
\* ret is what ::accept returned and addrlen what it left in addrlen.  fd
\* is the local object `w::fd fd`, result the object the caller receives:
\* fd itself when the copy is elided, else an object move-constructed from
\* fd before fd is destroyed.  A throw after fd's construction destroys fd.
accept_address(res, fd, result, ret, addrlen) ==
    LET a == w_accept(ret)
    IN  IF a.threw
        THEN [outcome |-> Throw(system_error(0)), res |-> res, calls |-> <<>>,
              constructed |-> {}, returned |-> {}]
        ELSE LET local == handle_owning(res, fd, a.value)
             IN  IF addrlen # SizeofAddress
                 THEN LET unwound == destroy(local.res, fd)
                      IN  [outcome |-> Throw(Exception("std::runtime_error", 0)),
                           res |-> unwound.res, calls |-> unwound.calls,
                           constructed |-> {fd}, returned |-> {}]
                 ELSE IF result = fd
                 THEN [outcome |-> Return(result), res |-> local.res,
                       calls |-> <<>>, constructed |-> {fd},
                       returned |-> {result}]
                 ELSE LET moved == handle_move(local.res, result, fd)
                          gone  == destroy(moved.res, fd)
                      IN  [outcome |-> Return(result), res |-> gone.res,
                           calls |-> moved.calls \o gone.calls,
                           constructed |-> {fd, result},
                           returned |-> {result}]

\* w::fd x = w::accept(sockfd, addr);  errno is what std::system_error
\* carries and is not modelled here.
AcceptAddress(fd, result, ret, addrlen) ==
    /\ inst = "fd"
    /\ life[fd] = "unborn"
    /\ life[result] = "unborn"
    /\ LET r == accept_address(resource, fd, result, ret, addrlen)
       IN  /\ resource' = r.res
           /\ life' = [x \in Handles |->
                          IF x \in r.returned THEN "live"
                          ELSE IF x \in r.constructed THEN "dead"
                          ELSE life[x]]
           /\ closeCalls' = Invoked(r.calls)
           /\ passed' = IF r.constructed = {}
                        THEN passed
                        ELSE Passed(<<Key(fd, ret)>>)
           /\ lastOp' = Op("accept<Address>", fd, NoHandle, result, <<>>,
                           <<r.outcome.value>>, <<ret, addrlen>>,
                           r.outcome.threw, r.calls, resource)
    /\ UNCHANGED <<inst, detached, moves>>

\* A program whose handles are w::fd objects, about to run.
InitAccept ==
    /\ inst = "fd"
    /\ life = [h \in Handles |-> "unborn"]
    /\ resource = [h \in Handles |-> Closed(KindOf(h))]
    /\ passed = [key \in Keys |-> 0]
    /\ closeCalls = [key \in Keys |-> 0]
    /\ detached = [key \in Keys |-> 0]
    /\ moves = 0
    /\ lastOp = Op("init", NoHandle, NoHandle, NoHandle, <<>>, <<>>, <<>>,
                   FALSE, <<>>, resource)

\* Such a program accepts connections and operates on its handles.
NextAccept ==
    \/ \E fd \in Handles : \E result \in Handles : \E ret \in SysFd :
       \E addrlen \in AddrLens :
           AcceptAddress(fd, result, ret, addrlen)
    \/ HandleNext

SpecAccept == InitAccept /\ [][NextAccept]_vars

\* ------------------------------------------- library functions, as calls
\* The functions that own no state are modelled as calls.  The initial
\* state holds a call about to be made: the function, its arguments and
\* what its environment (errno, a system call, a file) will produce; the
\* step applies the function, and lastOp then records the completed call.

\* The values of errno at the time of a call (ENOENT, EACCES).
Errnos == {2, 13}

\* The integers the throw_if_* helpers are applied to are -MaxArg .. MaxArg.
MaxArg == 2

ArgValues == (0 - MaxArg) .. MaxArg

\* A call of function `name` about to be made with arguments args in
\* environment env.
Call(name, args, env) ==
    Op("call", NoHandle, NoHandle, NoHandle, <<name>> \o args, <<>>, env,
       FALSE, <<>>, [h \in Handles |-> ClosedFd])

\* The call about to be made is one of `name`; its i-th argument; the i-th
\* value of its environment; all its arguments.
Calling(name) == lastOp.op = "call" /\ lastOp.arg[1] = name
In(i) == lastOp.arg[i + 1]
Env(i) == lastOp.sys[i]
Args == Tail(lastOp.arg)

\* The call completes: the record of the call of `name`, where the
\* environment produced sys.
LibCall(name, sys, outcome) ==
    /\ lastOp' = Op(name, NoHandle, NoHandle, NoHandle, Args, <<outcome.value>>,
                    sys, outcome.threw, <<>>, resource)
    /\ UNCHANGED <<inst, life, resource, passed, closeCalls, detached, moves>>

ThrowIfs2 == {"throw_if_eq", "throw_if_lt", "throw_if_ne"}

ThrowIfs1 == {"throw_if_nz", "throw_if_z"}

\* The helper called `name`, applied to value and (for the binary helpers) x.
ThrowIfHelper(name, value, x) ==
    CASE name = "throw_if_eq" -> throw_if_eq(value, x)
      [] name = "throw_if_lt" -> throw_if_lt(value, x)
      [] name = "throw_if_ne" -> throw_if_ne(value, x)
      [] name = "throw_if_nz" -> throw_if_nz(value)
      [] name = "throw_if_z"  -> throw_if_z(value)

\* w::throw_if_eq(value, x, message), throw_if_lt, throw_if_ne while errno
\* has the value Env(1).
ThrowIf2(name) ==
    /\ Calling(name)
    /\ LET r == ThrowIfHelper(name, In(1), In(2))
       IN  LibCall(name, <<Env(1)>>,
                   IF r.threw THEN Throw(system_error(Env(1))) ELSE Return(r.value))

\* w::throw_if_nz(value, message), throw_if_z while errno has the value
\* Env(1).
ThrowIf1(name) ==
    /\ Calling(name)
    /\ LET r == ThrowIfHelper(name, In(1), 0)
       IN  LibCall(name, <<Env(1)>>,
                   IF r.threw THEN Throw(system_error(Env(1))) ELSE Return(r.value))

ThrowIfCalls ==
    {Call(name, <<value, x>>, <<errno>>) :
         name \in ThrowIfs2, value \in ArgValues, x \in ArgValues,
         errno \in Errnos}
    \cup {Call(name, <<value>>, <<errno>>) :
              name \in ThrowIfs1, value \in ArgValues, errno \in Errnos}

\* ---- integer types
\* The widths of the integer types are scaled down: long long (and the
\* representation of std::chrono::milliseconds) has LongLongBits bits, int
\* and the narrower types have IntBits bits.
LongLongBits == 6

IntBits == LongLongBits - 2

\* std::numeric_limits of a signed and of an unsigned type of `bits` bits.
SignedMin(bits) == 0 - 2 ^ (bits - 1)
SignedMax(bits) == 2 ^ (bits - 1) - 1
UnsignedMax(bits) == 2 ^ bits - 1

INT_MIN == SignedMin(IntBits)
INT_MAX == SignedMax(IntBits)
LLONG_MIN == SignedMin(LongLongBits)
LLONG_MAX == SignedMax(LongLongBits)
ULLONG_MAX == UnsignedMax(LongLongBits)

\* Conversion of an integer to a signed, and to an unsigned, type of `bits`
\* bits: the value modulo 2 ^ bits.
ToSigned(n, bits) == ((n - SignedMin(bits)) % (2 ^ bits)) + SignedMin(bits)
ToUnsigned(n, bits) == n % (2 ^ bits)

\* ---- w::epoll_wait

\* What ::epoll_wait returns: -1 or the number of events.
SysEvents == -1 .. MaxArg

\* Faulty variant: only the upper end of the range of int is checked.
w_epoll_wait_no_lower_check(timeout, ret, errno) ==
    IF timeout > INT_MAX
    THEN [outcome |-> Throw(Exception("std::invalid_argument", 0)),
          called  |-> <<>>]
    ELSE LET r == throw_if_lt(ret, 0)
         IN  [outcome |-> IF r.threw
                          THEN Throw(system_error(errno))
                          ELSE Return(ToUnsigned(r.value, IntBits)),
              called  |-> <<ToSigned(timeout, IntBits)>>]

\* w::epoll_wait(epfd, events, maxevents, timeout): timeout is
\* timeout.count(), ret what ::epoll_wait returns if it is called and errno
\* the value of errno after it; called is the int ::epoll_wait receives as
\* its timeout.
w_epoll_wait(timeout, ret, errno) ==
    IF timeout < INT_MIN \/ timeout > INT_MAX
    THEN [outcome |-> Throw(Exception("std::invalid_argument", 0)),
          called  |-> <<>>]
    ELSE LET r == throw_if_lt(ret, 0)
         IN  [outcome |-> IF r.threw
                          THEN Throw(system_error(errno))
                          ELSE Return(ToUnsigned(r.value, IntBits)),
              called  |-> <<ToSigned(timeout, IntBits)>>]

\* unsigned n = w::epoll_wait(epfd, events, maxevents, timeout);  Env(1) is
\* what ::epoll_wait returns if it is called, Env(2) errno after it.
EpollWait ==
    /\ Calling("epoll_wait")
    /\ LET r == w_epoll_wait(In(1), Env(1), Env(2))
       IN  LibCall("epoll_wait",
                   IF r.called = <<>> THEN <<>> ELSE r.called \o lastOp.sys,
                   r.outcome)

EpollWaitCalls ==
    {Call("epoll_wait", <<timeout>>, <<ret, errno>>) :
         timeout \in LLONG_MIN .. LLONG_MAX, ret \in SysEvents,
         errno \in Errnos}

\* ---- wx::number

\* Strings have at most MaxLen characters.
MaxLen == 3

\* The characters '0' .. '9', in order of their values.
DigitChars == <<"0", "1", "2", "3", "4", "5", "6", "7", "8", "9">>

Digits == {DigitChars[i] : i \in 1 .. Len(DigitChars)}

DigitValue(ch) == (CHOOSE i \in 1 .. Len(DigitChars) : DigitChars[i] = ch) - 1

\* std::isspace in the "C" locale: space, \t, \n, \v, \f, \r.
WhiteSpace == {" ", "\t", "\n", "VT", "\f", "\r"}

isspace(ch) == ch \in WhiteSpace

\* The characters of the strings given to wx::number: the digits, the
\* signs, a whitespace character and a character that is none of these.
NumChars == Digits \cup {"-", "+", " ", "x"}

NumStrings == UNION {[1 .. n -> NumChars] : n \in 0 .. MaxLen}

\* The index of the first character of str at or after i that is not
\* whitespace (Len(str) + 1 if there is none).
RECURSIVE SkipSpace(_, _)
SkipSpace(str, i) ==
    IF i <= Len(str) /\ isspace(str[i]) THEN SkipSpace(str, i + 1) ELSE i

\* The index of the first character of str at or after i that is not a
\* digit (Len(str) + 1 if there is none).
RECURSIVE DigitsEnd(_, _)
DigitsEnd(str, i) ==
    IF i <= Len(str) /\ str[i] \in Digits THEN DigitsEnd(str, i + 1) ELSE i

\* The value of the decimal digits str[from .. to].
RECURSIVE Magnitude(_, _, _)
Magnitude(str, from, to) ==
    IF to < from
    THEN 0
    ELSE 10 * Magnitude(str, from, to - 1) + DigitValue(str[to])

\* The subject sequence strtoull and strtoll (base 10) find in str: leading
\* whitespace, an optional sign, then digits.  Without a digit nothing is
\* converted and end is str itself (index 1); otherwise end is the index
\* of the first character after the digits.
SubjectSequence(str) ==
    LET s      == SkipSpace(str, 1)
        signed == s <= Len(str) /\ str[s] \in {"+", "-"}
        d      == IF signed THEN s + 1 ELSE s
        e      == DigitsEnd(str, d)
    IN  [converted |-> e > d,
         negative  |-> signed /\ str[s] = "-",
         magnitude |-> Magnitude(str, d, e - 1),
         end       |-> IF e > d THEN e ELSE 1]

\* std::strtoull(str, &end, 10) after errno = 0: the value returned, end,
\* and whether errno is ERANGE afterwards.  A value beyond ULLONG_MAX gives
\* ULLONG_MAX and ERANGE; a minus sign negates the value in the return
\* type, unsigned long long.
strtoull(str) ==
    LET p == SubjectSequence(str)
    IN  IF ~p.converted
        THEN [value |-> 0, end |-> p.end, erange |-> FALSE]
        ELSE IF p.magnitude > ULLONG_MAX
        THEN [value |-> ULLONG_MAX, end |-> p.end, erange |-> TRUE]
        ELSE [value  |-> IF p.negative
                         THEN ToUnsigned(0 - p.magnitude, LongLongBits)
                         ELSE p.magnitude,
              end    |-> p.end,
              erange |-> FALSE]

\* std::strtoll(str, &end, 10) after errno = 0: a value above LLONG_MAX
\* gives LLONG_MAX and ERANGE, one below LLONG_MIN gives LLONG_MIN and
\* ERANGE.
strtoll(str) ==
    LET p == SubjectSequence(str)
        v == IF p.negative THEN 0 - p.magnitude ELSE p.magnitude
    IN  IF ~p.converted
        THEN [value |-> 0, end |-> p.end, erange |-> FALSE]
        ELSE IF v > LLONG_MAX
        THEN [value |-> LLONG_MAX, end |-> p.end, erange |-> TRUE]
        ELSE IF v < LLONG_MIN
        THEN [value |-> LLONG_MIN, end |-> p.end, erange |-> TRUE]
        ELSE [value |-> v, end |-> p.end, erange |-> FALSE]

\* end == str || *end
Invalid(str, end) == end = 1 \/ end <= Len(str)

\* wx::number<T>(str) for an unsigned integral T of `bits` bits.
number_unsigned(bits, str) ==
    LET c == strtoull(str)
        l == c.value
    IN  IF Invalid(str, c.end)
        THEN Throw(Exception("std::runtime_error", 0))
        ELSE IF l > UnsignedMax(bits) \/ (l = ULLONG_MAX /\ c.erange)
        THEN Throw(Exception("std::range_error", 0))
        ELSE Return(ToUnsigned(l, bits))

\* Faulty variant: the range tests do not look at errno.
number_signed_ignores_errno(bits, str) ==
    LET c == strtoll(str)
        l == c.value
    IN  IF Invalid(str, c.end)
        THEN Throw(Exception("std::runtime_error", 0))
        ELSE IF l > SignedMax(bits)
        THEN Throw(Exception("std::range_error", 0))
        ELSE IF l < SignedMin(bits)
        THEN Throw(Exception("std::range_error", 0))
        ELSE Return(ToSigned(l, bits))

\* wx::number<T>(str) for a signed integral T of `bits` bits.
number_signed(bits, str) ==
    LET c == strtoll(str)
        l == c.value
    IN  IF Invalid(str, c.end)
        THEN Throw(Exception("std::runtime_error", 0))
        ELSE IF l > SignedMax(bits) \/ (l = LLONG_MAX /\ c.erange)
        THEN Throw(Exception("std::range_error", 0))
        ELSE IF l < SignedMin(bits) \/ (l = LLONG_MIN /\ c.erange)
        THEN Throw(Exception("std::range_error", 0))
        ELSE Return(ToSigned(l, bits))

\* The widths of the types T wx::number is instantiated with.
TypeBits == {IntBits, LongLongBits}

\* wx::number<T>(str), T unsigned with In(1) bits, str = In(2).
NumberUnsigned ==
    /\ Calling("number<unsigned>")
    /\ LibCall("number<unsigned>", <<>>, number_unsigned(In(1), In(2)))

\* wx::number<T>(str), T signed with In(1) bits, str = In(2).
NumberSigned ==
    /\ Calling("number<signed>")
    /\ LibCall("number<signed>", <<>>, number_signed(In(1), In(2)))

NumberCalls ==
    {Call(name, <<bits, str>>, <<>>) :
         name \in {"number<unsigned>", "number<signed>"}, bits \in TypeBits,
         str \in NumStrings}

\* ---- wx::rtrim

\* The character '\0'.
NUL == "NUL"

\* The characters of the strings given to wx::rtrim.
TextChars == {"a", " ", "\n", NUL}

TextStrings == UNION {[1 .. n -> TextChars] : n \in 0 .. MaxLen}

\* Faulty variant: the lambda does not test for '\0'.
lambda_ignores_nul(ch) == ~isspace(ch)

\* [](unsigned char ch) { return !std::isspace(ch) && ch != '\0'; }
lambda(ch) == ~isspace(ch) /\ ch # NUL

\* std::find_if(str.rbegin(), str.rend(), lambda) from index i downwards:
\* the index of the last character at or before i the lambda holds of, 0
\* (rend) if there is none.  from.base() is the position after that index.
RECURSIVE find_if_reverse(_, _)
find_if_reverse(str, i) ==
    IF i = 0 \/ lambda(str[i]) THEN i ELSE find_if_reverse(str, i - 1)

\* wx::rtrim(str): str after str.erase(from.base(), str.end()).
rtrim(str) == SubSeq(str, 1, find_if_reverse(str, Len(str)))

\* wx::rtrim(str);  str = In(1)
Rtrim ==
    /\ Calling("rtrim")
    /\ LibCall("rtrim", <<>>, Return(rtrim(In(1))))

RtrimCalls == {Call("rtrim", <<str>>, <<>>) : str \in TextStrings}

\* ---- wx::read_file_as_string, wx::slurp

\* std::size_t buffer_size = 32;
InitialBufferSize == 32

\* Files have at most MaxFileLen bytes.
MaxFileLen == 130

\* The bytes of a file of n bytes, one of three such files.
FileChars == <<"a", "b", " ">>

FileBytes(n, k) == [i \in 1 .. n |-> FileChars[((i + k) % Len(FileChars)) + 1]]

\* A file as the stream sees it: whether it can be opened; its bytes; and
\* errorAt, <<>> or <<p>> when the device fails after delivering p bytes.
File(opens, bytes, errorAt) ==
    [opens |-> opens, bytes |-> bytes, errorAt |-> errorAt]

\* Where the device may fail while a file of n bytes is read: nowhere, at
\* once, halfway, or after the last byte.
ErrorPoints(n) == {<<>>, <<0>>, <<n \div 2>>, <<n>>}

Files ==
    {File(FALSE, <<>>, <<>>)}
    \cup UNION {{File(TRUE, FileBytes(n, k), e) :
                     k \in 0 .. 1, e \in ErrorPoints(n)} :
                    n \in 0 .. MaxFileLen}

\* std::string::resize(n): truncated, or extended with '\0'.
Resize(s, n) == [i \in 1 .. n |-> IF i <= Len(s) THEN s[i] ELSE NUL]

\* std::istream::read(&contents[size], count) at file offset pos: it
\* extracts up to count bytes; fewer than count sets failbit and eofbit; a
\* device error sets badbit, which throws as exceptions() is badbit.
istream_read(file, pos, contents, size, count) ==
    LET avail  == Len(file.bytes) - pos
        gcount == IF count <= avail THEN count ELSE avail
    IN  [bad      |-> file.errorAt # <<>> /\ file.errorAt[1] < pos + count,
         ok       |-> gcount = count,
         gcount   |-> gcount,
         contents |-> [i \in 1 .. Len(contents) |->
                          IF size < i /\ i <= size + gcount
                          THEN file.bytes[pos + (i - size)]
                          ELSE contents[i]]]

\* Faulty variant: the final resize leaves out what the last read delivered.
final_resize_ignores_gcount(contents, size, gcount) == Resize(contents, size)

\* contents.resize(size + file.gcount());
final_resize(contents, size, gcount) == Resize(contents, size + gcount)

\* while (file.read(&contents[size], buffer_size - size))
\* { size = buffer_size; contents.resize(buffer_size *= 2); }
\* contents.resize(size + file.gcount()); return contents;
\* `reads` counts the calls of read.
RECURSIVE read_loop(_, _, _, _, _)
read_loop(file, contents, size, buffer_size, reads) ==
    LET r == istream_read(file, size, contents, size, buffer_size - size)
    IN  IF r.bad
        THEN [outcome |-> Throw(Exception("std::ios_base::failure", 0)),
              reads   |-> reads + 1]
        ELSE IF r.ok
        THEN read_loop(file, Resize(r.contents, buffer_size * 2), buffer_size,
                       buffer_size * 2, reads + 1)
        ELSE [outcome |-> Return(final_resize(r.contents, size, r.gcount)),
              reads   |-> reads + 1]

\* wx::read_file_as_string(path), where path names `file`.
read_file_as_string(file) ==
    IF ~file.opens
    THEN [outcome |-> Throw(Exception("std::runtime_error", 0)), reads |-> 0]
    ELSE read_loop(file, Resize(<<>>, InitialBufferSize), 0,
                   InitialBufferSize, 0)

\* wx::slurp(path), where path names `file`.
slurp(file) ==
    LET r == read_file_as_string(file)
    IN  IF r.outcome.threw
        THEN r
        ELSE [outcome |-> Return(rtrim(r.outcome.value)), reads |-> r.reads]

\* std::string s = wx::read_file_as_string(path);  Env(1) is the file.
ReadFileAsString ==
    /\ Calling("read_file_as_string")
    /\ LET r == read_file_as_string(Env(1))
       IN  LibCall("read_file_as_string", <<Env(1), r.reads>>, r.outcome)

\* std::string s = wx::slurp(path);  Env(1) is the file.
Slurp ==
    /\ Calling("slurp")
    /\ LET r == slurp(Env(1))
       IN  LibCall("slurp", <<Env(1), r.reads>>, r.outcome)

FileCalls ==
    {Call(name, <<"path">>, <<file>>) :
         name \in {"read_file_as_string", "slurp"}, file \in Files}

\* A program that owns no handle and is about to call a library function.
InitLib ==
    /\ inst = "fd"
    /\ life = [h \in Handles |-> "unborn"]
    /\ resource = [h \in Handles |-> Closed(KindOf(h))]
    /\ passed = [key \in Keys |-> 0]
    /\ closeCalls = [key \in Keys |-> 0]
    /\ detached = [key \in Keys |-> 0]
    /\ moves = 0
    /\ \/ lastOp \in ThrowIfCalls
       \/ lastOp \in EpollWaitCalls
       \/ lastOp \in NumberCalls
       \/ lastOp \in RtrimCalls
       \/ lastOp \in FileCalls

NextLib ==
    \/ \E name \in ThrowIfs2 : ThrowIf2(name)
    \/ \E name \in ThrowIfs1 : ThrowIf1(name)
    \/ EpollWait
    \/ NumberUnsigned
    \/ NumberSigned
    \/ Rtrim
    \/ ReadFileAsString
    \/ Slurp

SpecLib == InitLib /\ [][NextLib]_vars

\* ------------------------------------------------------ wx::ipv6, as calls

\* address.s6_addr[0] == 0xfe
LinkLocalByte0 == 254

\* address.s6_addr[1] == 0x80
LinkLocalByte1 == 128

\* The number of bytes of in6_addr::s6_addr.
AddrBytes == 16

\* The values the bytes of the addresses tested take.
ByteSamples == {0, 127, 128, 129, 253, 254, 255}

\* The in6_addr whose bytes 0, 1, 2 and 15 are b0, b1, b2 and b15 and whose
\* other bytes are zero; s6_addr[i] is element i + 1.
Address(b0, b1, b2, b15) ==
    [i \in 1 .. AddrBytes |->
        CASE i = 1         -> b0
          [] i = 2         -> b1
          [] i = 3         -> b2
          [] i = AddrBytes -> b15
          [] OTHER         -> 0]

Addresses ==
    {Address(b0, b1, b2, b15) :
         b0 \in ByteSamples, b1 \in ByteSamples, b2 \in ByteSamples,
         b15 \in ByteSamples}

\* Faulty variant: only the first byte is tested.
is_link_local_first_byte(address) == address[1] = LinkLocalByte0

\* wx::ipv6::is_link_local(address)
is_link_local(address) ==
    address[1] = LinkLocalByte0 /\ address[2] = LinkLocalByte1

\* bool b = wx::ipv6::is_link_local(address);  address = In(1)
IsLinkLocal ==
    /\ Calling("is_link_local")
    /\ LibCall("is_link_local", <<>>, Return(is_link_local(In(1))))

IsLinkLocalCalls ==
    {Call("is_link_local", <<address>>, <<>>) : address \in Addresses}

\* Interface lists have at most MaxEntries entries.
MaxEntries == 2

\* A null ifa_name.
NullName == "(null)"

\* One struct ifaddrs: ifa_name; whether ifa_addr is non-null; and, of the
\* address ifa_addr points to, sa_family and the bytes where sin6_addr is.
IfEntry(name, has_addr, family, address) ==
    [name |-> name, has_addr |-> has_addr, family |-> family,
     address |-> address]

IfEntries ==
    {IfEntry(name, FALSE, "AF_UNSPEC", Address(0, 0, 0, 0)) :
         name \in {NullName, "eth0", "eth1"}}
    \cup {IfEntry(name, TRUE, "AF_INET", Address(254, 128, 0, 1)) :
              name \in {NullName, "eth0", "eth1"}}
    \cup {IfEntry(name, TRUE, "AF_INET6", address) :
              name \in {NullName, "eth0", "eth1"},
              address \in {Address(254, 128, 0, 1), Address(254, 128, 0, 2),
                           Address(254, 129, 0, 1)}}

\* The lists ::getifaddrs can produce, in ifa_next order.
IfLists == UNION {[1 .. n -> IfEntries] : n \in 0 .. MaxEntries}

\* The address of a list's first entry: null for the empty list.
ListPointer(entries) == IF entries = <<>> THEN NullPtr ELSE 1

\* Faulty variant: the lambda does not compare the interface name.
ifaddrs_lambda_ignores_name(a, interface_name) ==
    /\ a.has_addr
    /\ a.name # NullName
    /\ a.family = "AF_INET6"
    /\ is_link_local(a.address)

\* [=](const ifaddrs& a) { return a.ifa_addr && a.ifa_name && ... }
ifaddrs_lambda(a, interface_name) ==
    /\ a.has_addr
    /\ a.name # NullName
    /\ a.family = "AF_INET6"
    /\ a.name = interface_name
    /\ is_link_local(a.address)

\* std::find_if(begin(interfaces), end(interfaces), lambda) from entry i on:
\* the index of the first entry the lambda holds of, Len(entries) + 1 (the
\* end iterator) if there is none.
RECURSIVE find_if_ifaddrs(_, _, _)
find_if_ifaddrs(entries, i, interface_name) ==
    IF i > Len(entries) \/ ifaddrs_lambda(entries[i], interface_name)
    THEN i
    ELSE find_if_ifaddrs(entries, i + 1, interface_name)

\* The struct sockaddr_in6 copied from an entry's address.
sockaddr_in6(a) == [family |-> a.family, address |-> a.address]

\* wx::ipv6::get_link_local_address(interface_name): rc is what
\* ::getifaddrs returned, ifa the pointer it stored and entries the list
\* at that pointer.  h is the local handle `interfaces`, destroyed when
\* the function returns or throws; the returned structure is copied
\* before that.
get_link_local_address(res, h, interface_name, rc, ifa, entries) ==
    LET g == w_getifaddrs(rc, ifa)
    IN  IF g.threw
        THEN [outcome |-> Throw(system_error(0)), res |-> res, calls |-> <<>>,
              constructed |-> <<>>]
        ELSE LET interfaces == handle_owning(res, h, g.value)
                 ptr        == operator_Resource(interfaces.res, h).ret[1]
                 list       == IF ptr = NullPtr THEN <<>> ELSE entries
                 interface  == find_if_ifaddrs(list, 1, interface_name)
                 unwound    == destroy(interfaces.res, h)
             IN  [outcome |->
                      IF interface = Len(list) + 1
                      THEN Throw(Exception("std::runtime_error", 0))
                      ELSE Return(sockaddr_in6(list[interface])),
                  res |-> unwound.res,
                  calls |-> unwound.calls,
                  constructed |-> <<Key(h, g.value)>>]

\* auto a = wx::ipv6::get_link_local_address(interface_name);  Env(1),
\* Env(2), Env(3) are ::getifaddrs' result, pointer and list.
GetLinkLocalAddress ==
    /\ Calling("get_link_local_address")
    /\ \E h \in Handles :
          /\ h = 1
          /\ LET r == get_link_local_address(resource, h, In(1), Env(1),
                                             Env(2), Env(3))
             IN  /\ resource' = r.res
                 /\ closeCalls' = Invoked(r.calls)
                 /\ passed' = Passed(r.constructed)
                 /\ lastOp' = Op("get_link_local_address", h, NoHandle,
                                 NoHandle, Args, <<r.outcome.value>>,
                                 lastOp.sys, r.outcome.threw, r.calls,
                                 resource)
    /\ UNCHANGED <<inst, life, detached, moves>>

GetLinkLocalAddressCalls ==
    {Call("get_link_local_address", <<interface_name>>,
          <<rc, ListPointer(entries), entries>>) :
         interface_name \in {"eth0", "wlan0"}, rc \in SysRc,
         entries \in IfLists}

\* A program that owns no handle and is about to call a function of
\* wx::ipv6.
InitIpv6 ==
    /\ inst = "ifaddrs"
    /\ life = [h \in Handles |-> "unborn"]
    /\ resource = [h \in Handles |-> Closed(KindOf(h))]
    /\ passed = [key \in Keys |-> 0]
    /\ closeCalls = [key \in Keys |-> 0]
    /\ detached = [key \in Keys |-> 0]
    /\ moves = 0
    /\ \/ lastOp \in IsLinkLocalCalls
       \/ lastOp \in GetLinkLocalAddressCalls

NextIpv6 ==
    \/ IsLinkLocal
    \/ GetLinkLocalAddress

SpecIpv6 == InitIpv6 /\ [][NextIpv6]_vars

\* ------------------------------------------------------------- properties

Live(h) == life[h] = "live"

\* The live handles holding value v.
Holders(v) == {h \in Handles : Live(h) /\ resource[h] = v}

\* The key of value v in this behaviour's instantiation.
K(v) == <<inst, v>>

Sentinel == Closed(inst)

\* The CloseFunc arguments of the last operation, in order.
CallArgs == [i \in 1 .. Len(lastOp.calls) |-> lastOp.calls[i].v]

\* What the last operation's object, and the source of its move, held before.
PreH == lastOp.pre[lastOp.h]
PreSrc == lastOp.pre[lastOp.src]

\* The value was given once to the owning constructor and never detached.
OwnedOnce(v) == passed[K(v)] = 1 /\ detached[K(v)] = 0

\* C1: a value given once to the owning constructor (and never detached) has
\* been released at most once at any time, and exactly once when no handle
\* is live any more, however many moves took place in between.
C1_ReleasedExactlyOnce ==
    \A v \in Values(inst) :
        OwnedOnce(v) =>
            /\ closeCalls[K(v)] <= 1
            /\ (\A h \in Handles : ~Live(h)) => closeCalls[K(v)] = 1

\* No value but v was ever given to an owning constructor.
OnlyValue(v) == \A w \in Values(inst) : w # v => passed[K(w)] = 0

\* C1 witness: every handle has been destroyed, the only value ever
\* acquired went through two or more moves, and CloseFunc ran for it once.
C1_Witness ==
    \E v \in Values(inst) :
        /\ OwnedOnce(v)
        /\ OnlyValue(v)
        /\ moves = 2
        /\ \A h \in Handles : life[h] = "dead"
        /\ closeCalls[K(v)] = 1

\* C2: a non-sentinel value given at most once to the owning constructor is
\* held by at most one live handle.
C2_AtMostOneHolder ==
    \A v \in Values(inst) :
        passed[K(v)] <= 1 => Cardinality(Holders(v)) <= 1

\* C2 witness: after a move, the value is held by the destination alone
\* while the source is live and empty.
C2_Witness ==
    /\ lastOp.op \in {"handle(handle&&)", "operator="}
    /\ lastOp.h # lastOp.src
    /\ PreSrc # Sentinel
    /\ passed[K(PreSrc)] = 1
    /\ Holders(PreSrc) = {lastOp.h}
    /\ Live(lastOp.src)

\* C3: CloseFunc is invoked no more often for a value than the value was
\* acquired (never for a value never acquired, at most once for one acquired
\* once); an operation that invokes it is close(), the destructor or a
\* move-assignment, invokes it once, and does so on the value its own
\* object held.
C3_CloseOnlyByOwner ==
    /\ \A key \in Keys : closeCalls[key] <= passed[key]
    /\ lastOp.calls # <<>> =>
          /\ lastOp.op \in {"close", "~handle", "operator="}
          /\ Len(lastOp.calls) = 1
          /\ lastOp.calls[1].by = lastOp.h
          /\ lastOp.calls[1].v = PreH
          /\ PreH # Sentinel
    /\ lastOp.op \in {"handle()", "handle(Resource)", "handle(handle&&)",
                      "get", "operator Resource", "operator bool", "release"}
          => lastOp.calls = <<>>

\* C3 witness: release() has just returned a value acquired once, and
\* CloseFunc has never run for it.
C3_Witness ==
    /\ lastOp.op = "release"
    /\ PreH # Sentinel
    /\ passed[K(PreH)] = 1
    /\ closeCalls[K(PreH)] = 0

\* What CloseFunc is invoked with by an operation that releases what its
\* object held: the value, unless the object held the sentinel.
Releases(v) == IF v # Sentinel THEN <<v>> ELSE <<>>

\* C4: after move-assigning B into a distinct A, CloseFunc has been invoked
\* once on the value A held (not at all if A was empty) and not on the
\* different value B held; A holds what B held and B holds the sentinel.
\* No move-assignment invokes CloseFunc more than once.
C4_MoveAssign ==
    lastOp.op = "operator=" =>
        /\ Len(lastOp.calls) <= 1
        /\ lastOp.h # lastOp.src =>
              /\ CallArgs = Releases(PreH)
              /\ PreSrc # PreH => \A i \in 1 .. Len(CallArgs) : CallArgs[i] # PreSrc
              /\ resource[lastOp.h] = PreSrc
              /\ resource[lastOp.src] = Sentinel
              /\ \A key \in Keys :
                     closeCalls[key] >= CountCalls(lastOp.calls, key)

\* C4 witness: B owning v2 has been move-assigned into A owning v1 # v2.
C4_Witness ==
    /\ lastOp.op = "operator="
    /\ lastOp.h # lastOp.src
    /\ PreH # Sentinel
    /\ PreSrc # Sentinel
    /\ PreH # PreSrc
    /\ closeCalls[K(PreH)] = 1
    /\ closeCalls[K(PreSrc)] = 0

\* C5: a step that move-assigns a handle onto itself invokes CloseFunc for
\* nothing and changes no field; destroying the handle next releases the
\* value it holds exactly once (nothing if it is empty).
C5_SelfStep ==
    /\ (lastOp'.op = "operator=" /\ lastOp'.h = lastOp'.src) =>
          /\ lastOp'.calls = <<>>
          /\ resource' = resource
          /\ closeCalls' = closeCalls
    /\ (/\ lastOp.op = "operator="
        /\ lastOp.h = lastOp.src
        /\ lastOp'.op = "~handle"
        /\ lastOp'.h = lastOp.h) =>
          /\ [i \in 1 .. Len(lastOp'.calls) |-> lastOp'.calls[i].v]
                 = Releases(lastOp.pre[lastOp.h])
          /\ \A v \in Values(inst) :
                 (v = lastOp.pre[lastOp.h] /\ closeCalls[K(v)] = 0)
                     => closeCalls'[K(v)] = 1

C5_SelfMoveAssign == [][C5_SelfStep]_vars

\* C5 witness: an owning handle has been move-assigned onto itself and
\* still holds its value, unreleased.
C5_Witness ==
    /\ lastOp.op = "operator="
    /\ lastOp.h = lastOp.src
    /\ PreH # Sentinel
    /\ resource[lastOp.h] = PreH
    /\ closeCalls[K(PreH)] = 0

\* C6: release() returns the value the handle held, leaves the sentinel
\* and invokes nothing; a value acquired once and detached is never given
\* to CloseFunc afterwards.
C6_Detach ==
    /\ lastOp.op = "release" =>
          /\ lastOp.ret = <<PreH>>
          /\ resource[lastOp.h] = Sentinel
          /\ lastOp.calls = <<>>
    /\ \A v \in Values(inst) :
          (passed[K(v)] = 1 /\ detached[K(v)] = 1) =>
              /\ closeCalls[K(v)] = 0
              /\ Holders(v) = {}

\* C6 witness: the only handle ever constructed owned a value, detached it
\* and has now been destroyed; CloseFunc never ran for the value.
C6_Witness ==
    /\ lastOp.op = "~handle"
    /\ \A h \in Handles : h # lastOp.h => life[h] = "unborn"
    /\ \E v \in Values(inst) :
          /\ passed[K(v)] = 1
          /\ detached[K(v)] = 1
          /\ closeCalls[K(v)] = 0

\* C7: CloseFunc is never invoked with the sentinel, and an operation on an
\* object that held the sentinel invokes nothing and leaves every field as
\* it was unless it is a move that takes another handle's value.
C7_EmptyNeverCloses ==
    /\ closeCalls[K(Sentinel)] = 0
    /\ \A i \in 1 .. Len(CallArgs) : CallArgs[i] # Sentinel
    /\ (lastOp.h \in Handles /\ PreH = Sentinel) => lastOp.calls = <<>>
    /\ (lastOp.op \in {"close", "~handle"} /\ PreH = Sentinel) =>
          resource = lastOp.pre

\* C7 witness: close() or the destructor has run on a moved-from handle
\* while another handle holds the value that was moved.
C7_Witness ==
    /\ lastOp.op \in {"close", "~handle"}
    /\ PreH = Sentinel
    /\ \E v \in Values(inst) :
          /\ passed[K(v)] = 1
          /\ OnlyValue(v)
          /\ moves = 1
          /\ Holders(v) # {}
          /\ lastOp.h \notin Holders(v)

\* C8: a step that calls close() on a handle owning v invokes CloseFunc
\* once, with v, and leaves the sentinel; a close() or destruction of the
\* same handle right after a close() invokes nothing.
C8_CloseStep ==
    /\ lastOp'.op = "close" =>
          /\ [i \in 1 .. Len(lastOp'.calls) |-> lastOp'.calls[i].v]
                 = Releases(resource[lastOp'.h])
          /\ resource'[lastOp'.h] = Sentinel
          /\ \A key \in Keys :
                 closeCalls'[key] =
                     Bump(closeCalls[key], CountCalls(lastOp'.calls, key))
    /\ (/\ lastOp.op = "close"
        /\ lastOp'.op \in {"close", "~handle"}
        /\ lastOp'.h = lastOp.h) =>
          /\ lastOp'.calls = <<>>
          /\ closeCalls' = closeCalls

C8_CloseIdempotent == [][C8_CloseStep]_vars

\* C8 witness: the only handle ever constructed owned a value, and close()
\* has just run on it while it was already closed; CloseFunc ran once.
C8_Witness ==
    /\ lastOp.op = "close"
    /\ PreH = Sentinel
    /\ \A h \in Handles : h # lastOp.h => life[h] = "unborn"
    /\ \E v \in Values(inst) :
          /\ passed[K(v)] = 1
          /\ detached[K(v)] = 0
          /\ closeCalls[K(v)] = 1

\* C9: a step that move-constructs H2 from H1 leaves H2 with what H1 held
\* and H1 with the sentinel and invokes nothing; destroying H1 next invokes
\* nothing and leaves H2's value; every destruction invokes CloseFunc once
\* with the value the handle holds (nothing for the sentinel).
C9_MoveCtorStep ==
    /\ lastOp'.op = "handle(handle&&)" =>
          /\ resource'[lastOp'.h] = resource[lastOp'.src]
          /\ resource'[lastOp'.src] = Sentinel
          /\ lastOp'.calls = <<>>
          /\ closeCalls' = closeCalls
    /\ (lastOp.op = "handle(handle&&)" /\ lastOp'.op = "~handle") =>
          /\ lastOp'.h = lastOp.src =>
                /\ lastOp'.calls = <<>>
                /\ resource'[lastOp.h] = lastOp.pre[lastOp.src]
          /\ lastOp'.h = lastOp.h =>
                [i \in 1 .. Len(lastOp'.calls) |-> lastOp'.calls[i].v]
                    = Releases(lastOp.pre[lastOp.src])
    /\ lastOp'.op = "~handle" =>
          /\ [i \in 1 .. Len(lastOp'.calls) |-> lastOp'.calls[i].v]
                 = Releases(resource[lastOp'.h])
          /\ \A key \in Keys :
                 closeCalls'[key] =
                     Bump(closeCalls[key], CountCalls(lastOp'.calls, key))

C9_MoveConstruct == [][C9_MoveCtorStep]_vars

\* C9 witness: H2 has been move-constructed from H1, which owned a value;
\* H2 holds it, H1 is empty and CloseFunc has not run for it.
C9_Witness ==
    /\ lastOp.op = "handle(handle&&)"
    /\ PreSrc # Sentinel
    /\ resource[lastOp.h] = PreSrc
    /\ resource[lastOp.src] = Sentinel
    /\ passed[K(PreSrc)] = 1
    /\ closeCalls[K(PreSrc)] = 0

Wrappers == FdWrappers \cup {"pipe", "getifaddrs"}

\* The system call behind a wrapper reported failure: each of ::open,
\* ::socket, ::accept, ::epoll_create, ::eventfd, ::timerfd_create, ::pipe
\* and ::getifaddrs returns -1 on failure.
SysFailed(op) == op.sys[1] = -1

\* C10: a step of an acquisition wrapper throws exactly when the system
\* call reported failure, and then constructs no handle and changes
\* nothing; otherwise it constructs its handle(s) holding exactly what the
\* call produced (for pipe the read end, then the write end), and a
\* descriptor handle it returns never holds the failure value -1.
C10_AcquireStep ==
    lastOp'.op \in Wrappers =>
        /\ lastOp'.threw = SysFailed(lastOp')
        /\ lastOp'.calls = <<>>
        /\ lastOp'.threw =>
              /\ life' = life
              /\ resource' = resource
              /\ passed' = passed
              /\ lastOp'.h = NoHandle
        /\ ~lastOp'.threw =>
              /\ life[lastOp'.h] = "unborn"
              /\ life'[lastOp'.h] = "live"
              /\ lastOp'.op \in FdWrappers =>
                    /\ resource'[lastOp'.h] = lastOp'.sys[1]
                    /\ resource'[lastOp'.h] # -1
                    /\ passed'[K(lastOp'.sys[1])] >= 1
              /\ lastOp'.op = "pipe" =>
                    /\ life[lastOp'.h2] = "unborn"
                    /\ life'[lastOp'.h2] = "live"
                    /\ resource'[lastOp'.h] = lastOp'.sys[2]
                    /\ resource'[lastOp'.h2] = lastOp'.sys[3]
                    /\ resource'[lastOp'.h] # -1
                    /\ resource'[lastOp'.h2] # -1
              /\ lastOp'.op = "getifaddrs" =>
                    resource'[lastOp'.h] = lastOp'.sys[2]
              /\ \A h \in Handles :
                    h \notin {lastOp'.h, lastOp'.h2} =>
                        /\ life'[h] = life[h]
                        /\ resource'[h] = resource[h]

C10_AcquireOrThrow == [][C10_AcquireStep]_vars

\* C10 witness: w::pipe() has returned two live handles, the first holding
\* the read end and the second the write end.
C10_Witness ==
    /\ lastOp.op = "pipe"
    /\ ~lastOp.threw
    /\ Live(lastOp.h)
    /\ Live(lastOp.h2)
    /\ resource[lastOp.h] = lastOp.sys[2]
    /\ resource[lastOp.h2] = lastOp.sys[3]
    /\ lastOp.sys[2] # lastOp.sys[3]

\* C11: w::mmap throws whenever ::mmap returned MAP_FAILED; no handle ever
\* holds a region whose address is MAP_FAILED, and munmap is never invoked
\* on such a region.
C11_MmapThrowsOnFailure ==
    /\ (lastOp.op = "mmap" /\ lastOp.sys[1] = MAP_FAILED) => lastOp.threw
    /\ \A h \in Handles : resource[h][1] # MAP_FAILED
    /\ \A key \in Keys :
          (key[1] = "mmap" /\ key[2][1] = MAP_FAILED) => closeCalls[key] = 0

\* C12: in every reachable state the value a handle holds is the sentinel
\* or a value that was given to an owning constructor before; if it was
\* given once, CloseFunc has not been invoked for it and it has not been
\* detached by release().  Only a live handle holds a value.
C12_HeldValueOwned ==
    \A h \in Handles :
        resource[h] # Sentinel =>
            /\ Live(h)
            /\ passed[K(resource[h])] >= 1
            /\ passed[K(resource[h])] = 1 =>
                  /\ closeCalls[K(resource[h])] = 0
                  /\ detached[K(resource[h])] = 0

\* C12 witness: a live handle holds a value acquired once while another
\* value, also acquired once, has been released by CloseFunc and is held by
\* no handle any more.
C12_Witness ==
    \E h \in Handles : \E w \in Values(inst) :
        /\ Live(h)
        /\ resource[h] # Sentinel
        /\ resource[h] # w
        /\ passed[K(resource[h])] = 1
        /\ passed[K(w)] = 1
        /\ closeCalls[K(w)] = 1
        /\ Holders(w) = {}

Observers == {"get", "operator Resource", "operator bool"}

\* C13: a step of get(), of the conversion to Resource or of the conversion
\* to bool changes no field, no lifetime and no counter and invokes nothing;
\* get() and the conversion to Resource return the held value, the
\* conversion to bool returns whether the held value differs from the
\* sentinel; destroying the handle right after releases the value it holds.
C13_ObserverStep ==
    /\ lastOp'.op \in Observers =>
          /\ resource' = resource
          /\ life' = life
          /\ closeCalls' = closeCalls
          /\ passed' = passed
          /\ detached' = detached
          /\ lastOp'.calls = <<>>
          /\ lastOp'.op \in {"get", "operator Resource"} =>
                lastOp'.ret = <<resource[lastOp'.h]>>
          /\ lastOp'.op = "operator bool" =>
                lastOp'.ret = <<resource[lastOp'.h] # Sentinel>>
    /\ (/\ lastOp.op \in Observers
        /\ lastOp'.op = "~handle"
        /\ lastOp'.h = lastOp.h) =>
          [i \in 1 .. Len(lastOp'.calls) |-> lastOp'.calls[i].v]
              = Releases(lastOp.pre[lastOp.h])

C13_Observers == [][C13_ObserverStep]_vars

\* C13 witness: the conversion to bool has just returned true for a handle
\* that owns a value for which CloseFunc has not run.
C13_Witness ==
    /\ lastOp.op = "operator bool"
    /\ lastOp.ret = <<TRUE>>
    /\ resource[lastOp.h] # Sentinel
    /\ passed[K(resource[lastOp.h])] = 1
    /\ closeCalls[K(resource[lastOp.h])] = 0

\* The predicate the claim gives for each throw_if_* helper.
ThrowIfPredicate(name, value, x) ==
    CASE name = "throw_if_eq" -> value = x
      [] name = "throw_if_lt" -> value < x
      [] name = "throw_if_ne" -> value # x
      [] name = "throw_if_nz" -> value # 0
      [] name = "throw_if_z"  -> value = 0

\* C14: a call of a throw_if_* helper throws exactly when the helper's
\* predicate holds of its arguments, what it throws is a std::system_error
\* carrying the value errno has at the call, and otherwise it returns its
\* first argument as it received it.
C14_ThrowIf ==
    lastOp.op \in ThrowIfs2 \cup ThrowIfs1 =>
        LET value == lastOp.arg[1]
            x     == IF lastOp.op \in ThrowIfs2 THEN lastOp.arg[2] ELSE 0
        IN  /\ lastOp.threw = ThrowIfPredicate(lastOp.op, value, x)
            /\ lastOp.threw =>
                  lastOp.ret = <<Exception("std::system_error", lastOp.sys[1])>>
            /\ ~lastOp.threw => lastOp.ret = <<value>>

\* C14 witness: throw_if_lt has returned its argument, which is equal to
\* the bound it was compared with.
C14_Witness ==
    /\ lastOp.op = "throw_if_lt"
    /\ lastOp.arg[1] = lastOp.arg[2]
    /\ ~lastOp.threw
    /\ lastOp.ret = <<lastOp.arg[1]>>

\* C15: a call of w::epoll_wait throws std::invalid_argument exactly when
\* the timeout count is outside the range of int, and then ::epoll_wait is
\* not called; for a count in range ::epoll_wait receives the count itself,
\* and the call returns the number of events ::epoll_wait returned or, when
\* that is negative, throws std::system_error.
C15_EpollWait ==
    lastOp.op = "epoll_wait" =>
        LET timeout == lastOp.arg[1]
            inRange == INT_MIN <= timeout /\ timeout <= INT_MAX
        IN  /\ ~inRange =>
                  /\ lastOp.threw
                  /\ lastOp.ret[1].type = "std::invalid_argument"
                  /\ lastOp.sys = <<>>
            /\ inRange =>
                  /\ lastOp.sys # <<>>
                  /\ lastOp.sys[1] = timeout
                  /\ lastOp.sys[2] >= 0 =>
                        /\ ~lastOp.threw
                        /\ lastOp.ret = <<lastOp.sys[2]>>
                  /\ lastOp.sys[2] < 0 =>
                        /\ lastOp.threw
                        /\ lastOp.ret[1].type = "std::system_error"

\* C15 witness: w::epoll_wait was called with the largest int as timeout
\* count, passed it on and returned the positive number of events.
C15_Witness ==
    /\ lastOp.op = "epoll_wait"
    /\ lastOp.arg[1] = INT_MAX
    /\ ~lastOp.threw
    /\ lastOp.sys[1] = INT_MAX
    /\ lastOp.sys[2] > 0
    /\ lastOp.ret = <<lastOp.sys[2]>>

\* A string the parser accepts in full: optional whitespace, an optional
\* sign, one or more digits and nothing after them.
Accepted(str) ==
    SubjectSequence(str).converted /\ SubjectSequence(str).end = Len(str) + 1

\* The number an accepted string denotes.
Denotes(str) ==
    IF SubjectSequence(str).negative
    THEN 0 - SubjectSequence(str).magnitude
    ELSE SubjectSequence(str).magnitude

\* C16: wx::number<T> for an unsigned T, given a string the parser accepts
\* in full, returns the number the string denotes, which then lies in
\* 0 .. max(T), or throws std::range_error, and then that number lies
\* outside 0 .. max(T); given any other string it throws
\* std::runtime_error.
C16_NumberUnsigned ==
    lastOp.op = "number<unsigned>" =>
        LET bits    == lastOp.arg[1]
            str     == lastOp.arg[2]
            inRange == 0 <= Denotes(str) /\ Denotes(str) <= UnsignedMax(bits)
        IN  /\ Accepted(str) =>
                  \/ /\ ~lastOp.threw
                     /\ lastOp.ret = <<Denotes(str)>>
                     /\ inRange
                  \/ /\ lastOp.threw
                     /\ lastOp.ret[1].type = "std::range_error"
                     /\ ~inRange
            /\ ~Accepted(str) =>
                  /\ lastOp.threw
                  /\ lastOp.ret[1].type = "std::runtime_error"

\* C17: wx::number<T> for a signed T, given a string the parser accepts in
\* full, returns the number the string denotes when it lies in
\* min(T) .. max(T) and throws std::range_error when it does not (also
\* when it is outside the range of long long); given any other string it
\* throws std::runtime_error, whatever the digits it starts with denote.
C17_NumberSigned ==
    lastOp.op = "number<signed>" =>
        LET bits    == lastOp.arg[1]
            str     == lastOp.arg[2]
            inRange == /\ SignedMin(bits) <= Denotes(str)
                       /\ Denotes(str) <= SignedMax(bits)
        IN  /\ (Accepted(str) /\ inRange) =>
                  /\ ~lastOp.threw
                  /\ lastOp.ret = <<Denotes(str)>>
            /\ (Accepted(str) /\ ~inRange) =>
                  /\ lastOp.threw
                  /\ lastOp.ret[1].type = "std::range_error"
            /\ ~Accepted(str) =>
                  /\ lastOp.threw
                  /\ lastOp.ret[1].type = "std::runtime_error"

\* C17 witness: wx::number<long long> has thrown std::range_error for an
\* accepted string that denotes a number below the range of long long.
C17_Witness ==
    /\ lastOp.op = "number<signed>"
    /\ lastOp.arg[1] = LongLongBits
    /\ Accepted(lastOp.arg[2])
    /\ Denotes(lastOp.arg[2]) < LLONG_MIN
    /\ lastOp.threw
    /\ lastOp.ret[1].type = "std::range_error"

\* A character rtrim is to remove: whitespace or NUL.
Trimmable(ch) == ch \in WhiteSpace \cup {NUL}

\* C18: the string wx::rtrim leaves is a prefix of the string it was given,
\* does not end in whitespace or NUL, and every character removed is
\* whitespace or NUL; a string of such characters only becomes empty; and
\* rtrim leaves its own result as it is.
C18_Rtrim ==
    lastOp.op = "rtrim" =>
        LET str == lastOp.arg[1]
            res == lastOp.ret[1]
        IN  /\ ~lastOp.threw
            /\ Len(res) <= Len(str)
            /\ res = SubSeq(str, 1, Len(res))
            /\ res # <<>> => ~Trimmable(res[Len(res)])
            /\ \A i \in (Len(res) + 1) .. Len(str) : Trimmable(str[i])
            /\ (\A i \in 1 .. Len(str) : Trimmable(str[i])) => res = <<>>
            /\ rtrim(res) = res

\* C18 witness: rtrim removed a suffix that ends in NUL and kept a
\* whitespace character that comes before the last other character.
C18_Witness ==
    /\ lastOp.op = "rtrim"
    /\ Len(lastOp.ret[1]) < Len(lastOp.arg[1])
    /\ lastOp.arg[1][Len(lastOp.arg[1])] = NUL
    /\ \E i \in 1 .. Len(lastOp.ret[1]) : isspace(lastOp.ret[1][i])

\* C19: wx::read_file_as_string, for a file that opens and is read without
\* a device error, returns the bytes of the file, all of them and nothing
\* else, whatever the length of the file, and calls read no more often
\* than once per InitialBufferSize bytes of the file plus once.
C19_ReadFile ==
    lastOp.op = "read_file_as_string" =>
        LET file == lastOp.sys[1]
        IN  (file.opens /\ file.errorAt = <<>>) =>
                /\ ~lastOp.threw
                /\ lastOp.ret = <<file.bytes>>
                /\ Len(lastOp.ret[1]) = Len(file.bytes)
                /\ lastOp.sys[2] <= (Len(file.bytes) \div InitialBufferSize) + 1

\* C19 witness: a file of exactly twice the initial buffer size has been
\* returned whole, after three calls of read.
C19_Witness ==
    /\ lastOp.op = "read_file_as_string"
    /\ ~lastOp.threw
    /\ Len(lastOp.sys[1].bytes) = 2 * InitialBufferSize
    /\ lastOp.ret = <<lastOp.sys[1].bytes>>
    /\ lastOp.sys[2] = 3

\* C20: wx::read_file_as_string and wx::slurp throw std::ios_base::failure
\* when the file cannot be opened and when reading it meets a device error.
C20_FailureThrown ==
    lastOp.op \in {"read_file_as_string", "slurp"} =>
        LET file == lastOp.sys[1]
        IN  (~file.opens \/ file.errorAt # <<>>) =>
                /\ lastOp.threw
                /\ lastOp.ret[1].type = "std::ios_base::failure"

\* C24: when a move-assignment from another handle invokes CloseFunc, it
\* does so with the value the destination held, and at the moment of the
\* invocation the destination holds the sentinel, the source still holds
\* its own value and every other handle holds what it held before; only
\* afterwards does the destination hold the source's value.
C24_ReleaseBeforeTake ==
    (lastOp.op = "operator=" /\ lastOp.h # lastOp.src) =>
        /\ PreH # Sentinel => Len(lastOp.calls) = 1
        /\ \A i \in 1 .. Len(lastOp.calls) :
              /\ lastOp.calls[i].v = PreH
              /\ lastOp.calls[i].at[lastOp.h] = Sentinel
              /\ lastOp.calls[i].at[lastOp.src] = PreSrc
              /\ \A x \in Handles :
                    x # lastOp.h => lastOp.calls[i].at[x] = lastOp.pre[x]
        /\ resource[lastOp.h] = PreSrc
        /\ resource[lastOp.src] = Sentinel

\* C24 witness: a handle owning one value was move-assigned from a handle
\* owning another; CloseFunc ran while the destination was empty and the
\* source still held its value, which the destination holds now.
C24_Witness ==
    /\ lastOp.op = "operator="
    /\ lastOp.h # lastOp.src
    /\ PreH # Sentinel
    /\ PreSrc # Sentinel
    /\ PreSrc # PreH
    /\ Len(lastOp.calls) = 1
    /\ lastOp.calls[1].at[lastOp.h] = Sentinel
    /\ lastOp.calls[1].at[lastOp.src] = PreSrc
    /\ resource[lastOp.h] = PreSrc

\* C25: a step of close(), release(), get(), a conversion or the
\* destructor changes the field and the lifetime of no handle but its own,
\* and a step of a move changes those of no handle but its destination and
\* its source.
C25_FrameStep ==
    /\ lastOp'.op \in {"close", "release", "get", "operator Resource",
                       "operator bool", "~handle"} =>
          \A x \in Handles :
              x # lastOp'.h =>
                  /\ resource'[x] = resource[x]
                  /\ life'[x] = life[x]
    /\ lastOp'.op \in {"handle(handle&&)", "operator="} =>
          \A x \in Handles :
              x \notin {lastOp'.h, lastOp'.src} =>
                  /\ resource'[x] = resource[x]
                  /\ life'[x] = life[x]

C23_AcceptStep ==
    (lastOp'.op = "accept<Address>" /\ lastOp'.sys[1] # -1) =>
        LET fd == lastOp'.sys[1]
        IN  /\ lastOp'.sys[2] # SizeofAddress =>
                  /\ lastOp'.threw
                  /\ lastOp'.ret[1].type = "std::runtime_error"
                  /\ [i \in 1 .. Len(lastOp'.calls) |-> lastOp'.calls[i].v]
                         = <<fd>>
                  /\ closeCalls'[K(fd)] = Bump(closeCalls[K(fd)], 1)
                  /\ resource' = resource
                  /\ \A x \in Handles : life'[x] = "live" <=> life[x] = "live"
            /\ lastOp'.sys[2] = SizeofAddress =>
                  /\ ~lastOp'.threw
                  /\ lastOp'.calls = <<>>
                  /\ closeCalls' = closeCalls
                  /\ life[lastOp'.ret[1]] = "unborn"
                  /\ life'[lastOp'.ret[1]] = "live"
                  /\ resource'[lastOp'.ret[1]] = fd
                  /\ \A x \in Handles :
                        x # lastOp'.ret[1] =>
                            /\ resource'[x] = resource[x]
                            /\ life'[x] = "live" <=> life[x] = "live"

C23_AcceptClosesOnThrow == [][C23_AcceptStep]_vars

\* C23 witness: the first operation of the program, w::accept with an
\* address of the wrong size, has thrown std::runtime_error; the
\* descriptor ::accept returned was given to CloseFunc once and no handle
\* is live.
C23_Witness ==
    /\ lastOp.op = "accept<Address>"
    /\ lastOp.threw
    /\ lastOp.sys[1] # -1
    /\ lastOp.sys[2] # SizeofAddress
    /\ passed[K(lastOp.sys[1])] = 1
    /\ closeCalls[K(lastOp.sys[1])] = 1
    /\ \A x \in Handles : ~Live(x)

\* a is before b in the order of addresses as 128-bit numbers: at the
\* first byte where they differ, a's is the smaller.
AddressLess(a, b) ==
    \E i \in 1 .. AddrBytes :
        /\ a[i] < b[i]
        /\ \A j \in 1 .. (i - 1) : a[j] = b[j]

\* The address lies in [fe80::, fe81::).
InLinkLocalRange(address) ==
    /\ ~AddressLess(address, Address(254, 128, 0, 0))
    /\ AddressLess(address, Address(254, 129, 0, 0))

\* C21: is_link_local returns true exactly for the addresses in
\* [fe80::, fe81::), which are the addresses whose first two bytes are
\* 0xfe and 0x80.
C21_IsLinkLocal ==
    lastOp.op = "is_link_local" =>
        /\ ~lastOp.threw
        /\ lastOp.ret = <<InLinkLocalRange(lastOp.arg[1])>>
        /\ InLinkLocalRange(lastOp.arg[1])
               <=> (lastOp.arg[1][1] = 254 /\ lastOp.arg[1][2] = 128)

\* C21 witness: is_link_local has returned true for the last address of
\* the range among those tested, fe80:ff00::ff.
C21_Witness ==
    /\ lastOp.op = "is_link_local"
    /\ lastOp.arg[1] = Address(254, 128, 255, 255)
    /\ lastOp.ret = <<TRUE>>

\* An entry get_link_local_address is to select for interface_name.
Selected(a, interface_name) ==
    /\ a.name # NullName
    /\ a.name = interface_name
    /\ a.has_addr
    /\ a.family = "AF_INET6"
    /\ InLinkLocalRange(a.address)

\* C22: when ::getifaddrs succeeds, get_link_local_address returns the
\* address of the first entry of the list that has the given name and a
\* link-local AF_INET6 address, and throws std::runtime_error when the list
\* has no such entry; either way the list, unless it is empty (a null
\* pointer, nothing to free), has been given to freeifaddrs exactly once.
\* When ::getifaddrs fails the function throws std::system_error and
\* frees nothing.
C22_GetLinkLocalAddress ==
    lastOp.op = "get_link_local_address" =>
        LET interface_name == lastOp.arg[1]
            rc      == lastOp.sys[1]
            ptr     == lastOp.sys[2]
            entries == lastOp.sys[3]
            found   == {i \in 1 .. Len(entries) :
                           Selected(entries[i], interface_name)}
        IN  /\ rc # 0 =>
                  /\ lastOp.threw
                  /\ lastOp.ret[1].type = "std::system_error"
                  /\ lastOp.calls = <<>>
                  /\ \A key \in Keys : closeCalls[key] = 0
            /\ rc = 0 =>
                  /\ found # {} =>
                        /\ ~lastOp.threw
                        /\ \E i \in found :
                              /\ \A j \in found : i <= j
                              /\ lastOp.ret =
                                     <<[family  |-> "AF_INET6",
                                        address |-> entries[i].address]>>
                  /\ found = {} =>
                        /\ lastOp.threw
                        /\ lastOp.ret[1].type = "std::runtime_error"
                  /\ CallArgs = (IF ptr # NullPtr THEN <<ptr>> ELSE <<>>)
                  /\ \A key \in Keys :
                        closeCalls[key] =
                            (IF ptr # NullPtr /\ key = K(ptr) THEN 1 ELSE 0)
                  /\ \A h \in Handles : resource[h] = Sentinel

\* C22 witness: the list's first entry is a link-local address of another
\* interface, its second a link-local address of the interface asked for;
\* the second was returned and the list was freed once.
C22_Witness ==
    /\ lastOp.op = "get_link_local_address"
    /\ ~lastOp.threw
    /\ Len(lastOp.sys[3]) = 2
    /\ Selected(lastOp.sys[3][1], "eth1")
    /\ Selected(lastOp.sys[3][2], lastOp.arg[1])
    /\ lastOp.ret[1].address = lastOp.sys[3][2].address
    /\ lastOp.sys[3][2].address # lastOp.sys[3][1].address
    /\ closeCalls[K(lastOp.sys[2])] = 1

====
